---- MODULE Spec2Model ----
(***************************************************************************)
(* kepify (cmd/kepify/main.go): walk a directory for KEP markdown files,   *)
(* parse each one, and print the proposals as one JSON object keyed by the *)
(* checksum of "<owning-sig>:<title>".                                     *)
(*                                                                         *)
(* Text is modelled as sequences of one-character strings.  A Go []string  *)
(* is a record [isNil, items], because encoding/json tells a nil slice     *)
(* from an empty one.  An error value is a record whose kind is "nil" when *)
(* the error is nil.                                                       *)
(***************************************************************************)
EXTENDS Integers, Sequences, FiniteSets, TLC

\* ------------------------------------------------------------------ bounds
\* Directory entries one walk visits.
MaxEntries == 2
\* Length of the owning-sig and title texts in the identifier specification.
MaxStrLen == 2

\* ------------------------------------------------------------- characters
DQ == "\""
BS == "\\"
LF == "\n"
LT == "<"
COLON == ":"

RECURSIVE Flatten(_)
\* Concatenation of a sequence of texts.
Flatten(ss) == IF ss = <<>> THEN <<>> ELSE Head(ss) \o Flatten(Tail(ss))

RECURSIVE Join(_, _)
\* The texts of ss with sep between consecutive ones.
Join(ss, sep) ==
    IF ss = <<>> THEN <<>>
    ELSE IF Len(ss) = 1 THEN ss[1]
    ELSE ss[1] \o sep \o Join(Tail(ss), sep)

\* All texts over alphabet A of length 0..n.
TextsUpTo(A, n) == UNION {[1..k -> A] : k \in 0..n}

\* ----------------------------------------------------------- Go values
NilSlice == [isNil |-> TRUE, items |-> <<>>]
Slice(items) == [isNil |-> FALSE, items |-> items]

NoFile == [id |-> 0, name |-> <<>>, isDir |-> FALSE]
NilErr == [kind |-> "nil", file |-> NoFile, cause |-> ""]

\* ------------------------------------------------------------- ignore()
MarkdownSuffix == <<"m","d">>

IgnoredNames == {
    <<"0","0","2","3","-","d","o","c","u","m","e","n","t","a","t","i","o","n","-","f","o","r","-","i","m","a","g","e","s",".","m","d">>,
    <<"0","0","0","4","-","c","l","o","u","d","-","p","r","o","v","i","d","e","r","-","t","e","m","p","l","a","t","e",".","m","d">>,
    <<"0","0","0","1","a","-","m","e","t","a","-","k","e","p","-","i","m","p","l","e","m","e","n","t","a","t","i","o","n",".","m","d">>,
    <<"0","0","0","1","-","k","u","b","e","r","n","e","t","e","s","-","e","n","h","a","n","c","e","m","e","n","t","-","p","r","o","p","o","s","a","l","-","p","r","o","c","e","s","s",".","m","d">>,
    <<"Y","Y","Y","Y","M","M","D","D","-","k","e","p","-","t","e","m","p","l","a","t","e",".","m","d">>,
    <<"R","E","A","D","M","E",".","m","d">>,
    <<"k","e","p","-","f","a","q",".","m","d">> }

\* strings.HasSuffix
HasSuffix(s, suffix) ==
    /\ Len(s) >= Len(suffix)
    /\ SubSeq(s, Len(s) - Len(suffix) + 1, Len(s)) = suffix

\* Mutant of ignore: the ignore-list is not consulted.
ignore_NoList(name) == ~HasSuffix(name, MarkdownSuffix)

\* ignore(name): TRUE when the walk must skip a file of this base name.
ignore(name) ==
    IF ~HasSuffix(name, MarkdownSuffix) THEN TRUE
    ELSE IF name \in IgnoredNames THEN TRUE
    ELSE FALSE

\* --------------------------------------------------------- JSON encoding
\* encoding/json's escape of one character of a string (HTML escaping on,
\* as json.Marshal has it).
JSONEscape(c) ==
    CASE c = DQ -> <<BS, DQ>>
      [] c = BS -> <<BS, BS>>
      [] c = LF -> <<BS, "n">>
      [] c = LT -> <<BS, "u", "0", "0", "3", "c">>
      [] OTHER  -> <<c>>

\* json.Marshal of a Go string.
jsonMarshalString(s) ==
    <<DQ>> \o Flatten([i \in 1..Len(s) |-> JSONEscape(s[i])]) \o <<DQ>>

\* json.Marshal of a Go []string: null for the nil slice.
jsonMarshalSlice(array) ==
    IF array.isNil THEN <<"n","u","l","l">>
    ELSE <<"[">>
         \o Join([i \in 1..Len(array.items) |-> jsonMarshalString(array.items[i])], <<",">>)
         \o <<"]">>

\* marshal(array)
marshal(array) == jsonMarshalSlice(array)

\* The value text of a scalar line: the format "\"%s\"" around the raw field.
QuotedVerb(s) == <<DQ>> \o s \o <<DQ>>

\* --------------------------------------------------------------- hash()
\* The byte of a character.
CharCode(c) ==
    CASE c = "a" -> 97  [] c = "b" -> 98  [] c = "s" -> 115 [] c = "r" -> 114
      [] c = COLON -> 58 [] c = DQ -> 34  [] c = BS -> 92   [] c = LF -> 10
      [] c = LT -> 60    [] OTHER -> 63

RECURSIVE Checksum(_, _, _)
\* md5.Sum stands as a two-byte positional checksum: a deterministic digest
\* of the bytes, of fixed width, which is all the program relies on.
Checksum(s, lo, hi) ==
    IF s = <<>> THEN <<lo, hi>>
    ELSE LET l == (lo + CharCode(Head(s))) % 255
         IN  Checksum(Tail(s), l, (hi + l) % 255)

md5Sum(s) == Checksum(s, 0, 0)

HexDigit(n) == SubSeq(<<"0","1","2","3","4","5","6","7","8","9","a","b","c","d","e","f">>, n + 1, n + 1)

\* fmt.Sprintf("%x", bytes): two lowercase hex digits a byte.
SprintfHex(bytes) ==
    Flatten([i \in 1..Len(bytes) |-> HexDigit(bytes[i] \div 16) \o HexDigit(bytes[i] % 16)])

\* hash(s)
hash(s) == SprintfHex(md5Sum(s))

\* Mutant of HashInput: the body takes part in the key.
HashInput_WithContents(kep) == kep.OwningSIG \o <<COLON>> \o kep.Title \o kep.Contents

\* Mutant of HashInput: no separator between the two fields.
HashInput_NoSeparator(kep) == kep.OwningSIG \o kep.Title

\* The string given to hash for a proposal: kep.OwningSIG+":"+kep.Title.
HashInput(kep) == kep.OwningSIG \o <<COLON>> \o kep.Title

\* The key of a proposal's member.
MemberKey(kep) == hash(HashInput(kep))

\* -------------------------------------------------------------- proposals
\* The scalar and the sequence fields of a proposal, in print order.
FieldNames == <<"title", "owning-sig", "participating-sigs", "reviewers", "authors",
                "editor", "creation-date", "last-updated", "status",
                "see-also", "replaces", "superseded-by", "markdown">>

ScalarFields == {"title", "owning-sig", "editor", "creation-date", "last-updated", "status"}
SliceFields == {"participating-sigs", "reviewers", "authors", "see-also", "replaces", "superseded-by"}

\* The Go field a printed name reads.
FieldOf(kep, name) ==
    CASE name = "title" -> kep.Title
      [] name = "owning-sig" -> kep.OwningSIG
      [] name = "participating-sigs" -> kep.ParticipatingSIGs
      [] name = "reviewers" -> kep.Reviewers
      [] name = "authors" -> kep.Authors
      [] name = "editor" -> kep.Editor
      [] name = "creation-date" -> kep.CreationDate
      [] name = "last-updated" -> kep.LastUpdated
      [] name = "status" -> kep.Status
      [] name = "see-also" -> kep.SeeAlso
      [] name = "replaces" -> kep.Replaces
      [] name = "superseded-by" -> kep.SupersededBy
      [] name = "markdown" -> kep.Contents

\* A proposal as keps.Parser.Parse returns it; Error is "" when nil.
Proposal(title, sig, reviewers, contents, error) ==
    [Title |-> title, OwningSIG |-> sig,
     ParticipatingSIGs |-> Slice(<< <<"s">>, <<"b">> >>),
     Reviewers |-> reviewers,
     Authors |-> Slice(<< <<"a">> >>),
     Editor |-> <<>>, CreationDate |-> <<"a">>, LastUpdated |-> <<>>,
     Status |-> IF error = "" THEN <<"s">> ELSE <<>>,
     SeeAlso |-> NilSlice, Replaces |-> Slice(<<>>), SupersededBy |-> NilSlice,
     Contents |-> contents, Error |-> error]

\* Proposals the parser returns without an error: title, owning-sig and
\* status are not empty; a sequence key that is absent leaves the nil slice.
ParsedKeps ==
    { Proposal(t, <<"s">>, r, c, "") :
        t \in {<<"a">>, <<"a", DQ>>},
        r \in {NilSlice, Slice(<<>>)},
        c \in {<<>>, <<LF>>} }

\* Proposals the parser returns with an error set.
FailedKeps ==
    { Proposal(<<>>, <<>>, NilSlice, <<>>, e) : e \in {"no metadata block", "title missing"} }

ParseResults == ParsedKeps \cup FailedKeps

\* Mutant of KepHasError: the error of the record is not looked at.
KepHasError_Never(kep) == FALSE

\* kep.Error != nil
KepHasError(kep) == kep.Error # ""

\* Proposals.AddProposal: append.
AddProposal(proposals, kep) == Append(proposals, kep)

\* ------------------------------------------------------ printed lines
\* One Fprintf/Fprintln call of printJSONOutput: which format, the name
\* and the value text it fills in, and whether the format ends in a comma.
Line(fmt, name, value, comma) == [fmt |-> fmt, name |-> name, value |-> value, comma |-> comma]

OpenLine == Line("open", "", <<>>, FALSE)
CloseLine == Line("close", "", <<>>, FALSE)
KeyLine(key) == Line("key", "", key, FALSE)
EndLine(comma) == Line("end", "", <<>>, comma)

\* The value text each field's Fprintf prints.
FieldValue(kep, name) ==
    IF name \in ScalarFields THEN QuotedVerb(FieldOf(kep, name))
    ELSE IF name \in SliceFields THEN marshal(FieldOf(kep, name))
    ELSE jsonMarshalString(FieldOf(kep, name))

FieldLine(kep, name) == Line("field", name, FieldValue(kep, name), name # "markdown")

\* Mutant of MoreFollow: the comma is printed after the last member too.
MoreFollow_Always(i, total) == i < total

\* i < total-1, the test that prints "}," rather than "}".
MoreFollow(i, total) == i < total - 1

\* Mutant of RangeAt: the loop runs over the proposals backwards.
RangeAt_Reversed(proposals, i) == proposals[Len(proposals) - i]

\* The kep of iteration i (from 0) of "for i, kep := range proposals".
RangeAt(proposals, i) == proposals[i + 1]

\* The lines one iteration of the loop prints.
MemberLines(i, kep, total) ==
    <<KeyLine(MemberKey(kep))>>
    \o [n \in 1..Len(FieldNames) |-> FieldLine(kep, FieldNames[n])]
    \o <<EndLine(MoreFollow(i, total))>>

\* ------------------------------------------------------------------ state
VARIABLES
    pc,          \* where main is: "args", "walk", "found", "parse", "parsed",
                 \* "create", "open", "members", "printed", "exit" ("off": not run)
    dirPath,     \* -dir
    dirExists,   \* whether os.Stat finds dirPath
    filePath,    \* -output
    nVisited,    \* entries the walk has handed to the callback
    nExcluded,   \* files the callback dropped because ignore(name) held
    files,       \* findMarkdownFiles: the paths appended so far
    walkErr,     \* the error filepath.Walk returns
    idx,         \* parseFiles: files the loop has finished
    handles,     \* ids of the input files whose handle is open
    opened,      \* the files os.Open has opened, in order
    parsed,      \* what the parser was given and returned: [file, kep], in order
    parserFault, \* the first record the parser returned with an error: [at, cause]
    proposals,   \* keps.Proposals
    parseErr,    \* the error parseFiles returns
    printCalled, \* printJSONOutput has been called
    createFailed,\* os.Create returned an error
    outCreated,  \* the output file exists
    outOpen,     \* the output file's handle is open
    out,         \* the lines printJSONOutput has printed
    writeFailed, \* a write to the output file has failed or fallen short
    i,           \* printJSONOutput: the loop index
    printErr,    \* the error printJSONOutput returns
    exitCode,    \* the exit status, once pc = "exit"
    msg,         \* what main reported before exiting: [text, err]
    recs,        \* identifier specification: the proposals to key
    hashed       \* identifier specification: [input, key] of each, in order

vars == <<pc, dirPath, dirExists, filePath, nVisited, nExcluded, files, walkErr,
          idx, handles, opened, parsed, parserFault, proposals, parseErr,
          printCalled, createFailed, outCreated, outOpen, out, writeFailed, i,
          printErr, exitCode, msg, recs, hashed>>

inputVars == <<dirPath, dirExists, filePath>>
walkVars == <<nVisited, nExcluded, files, walkErr>>
parseVars == <<idx, handles, opened, parsed, parserFault, proposals, parseErr>>
printVars == <<printCalled, createFailed, outCreated, outOpen, out, writeFailed, i, printErr>>
keyVars == <<recs, hashed>>

NoFault == [at |-> 0, cause |-> ""]
NoMsg == [text |-> "", err |-> NilErr]

\* Everything but pc and the command line, before main has done anything.
Idle ==
    /\ nVisited = 0 /\ nExcluded = 0 /\ files = <<>> /\ walkErr = NilErr
    /\ idx = 0 /\ handles = {} /\ opened = <<>> /\ parsed = <<>>
    /\ parserFault = NoFault /\ proposals = <<>> /\ parseErr = NilErr
    /\ printCalled = FALSE /\ createFailed = FALSE /\ outCreated = FALSE
    /\ outOpen = FALSE /\ out = <<>> /\ writeFailed = FALSE /\ i = 0
    /\ printErr = NilErr /\ exitCode = 0 /\ msg = NoMsg

\* The process starts: the flags are parsed, nothing else has happened.
Init ==
    /\ pc = "args"
    /\ dirPath \in {<<>>, <<"k">>}
    /\ dirExists \in BOOLEAN
    /\ filePath \in {<<>>, <<"o">>}
    /\ Idle
    /\ recs = <<>> /\ hashed = <<>>

\* os.Exit(code) after a report.
Exit(code, text, err) ==
    /\ pc' = "exit"
    /\ exitCode' = code
    /\ msg' = [text |-> text, err |-> err]

\* ------------------------------------------------------------------- main
\* main, lines 46-58: the checks of the flags.
CheckArgs ==
    /\ pc = "args"
    /\ IF Len(dirPath) = 0
       THEN Exit(1, "please specify the root directory for KEPs using '--dir'", NilErr)
       ELSE IF ~dirExists
       THEN Exit(1, "directory does not exist", NilErr)
       ELSE IF Len(filePath) = 0
       THEN Exit(1, "please specify the file path for the output json using '--output'", NilErr)
       ELSE pc' = "walk" /\ UNCHANGED <<exitCode, msg>>
    /\ UNCHANGED <<inputVars, walkVars, parseVars, printVars, keyVars>>

\* Base names the walk meets.
EntryNames ==
    IgnoredNames \cup { <<"a",".","m","d">>, <<"c","m","d">>, <<"a",".","t","x","t">> }

\* findMarkdownFiles: filepath.Walk hands one entry to the callback.
WalkVisit ==
    /\ pc = "walk"
    /\ nVisited < MaxEntries
    /\ \E name \in EntryNames, isDir \in BOOLEAN, failed \in BOOLEAN :
         LET path == [id |-> nVisited + 1, name |-> name, isDir |-> isDir] IN
         /\ nVisited' = nVisited + 1
         /\ IF failed
            THEN \* return err: the walk stops and returns it
                 /\ walkErr' = [kind |-> "walk", file |-> path, cause |-> "lstat failed"]
                 /\ pc' = "found"
                 /\ UNCHANGED <<files, nExcluded>>
            ELSE IF isDir
            THEN UNCHANGED <<files, nExcluded, walkErr, pc>>
            ELSE IF ignore(name)
            THEN nExcluded' = nExcluded + 1 /\ UNCHANGED <<files, walkErr, pc>>
            ELSE files' = Append(files, path) /\ UNCHANGED <<nExcluded, walkErr, pc>>
    /\ UNCHANGED <<inputVars, parseVars, printVars, exitCode, msg, keyVars>>

\* findMarkdownFiles: the walk has met every entry and returns nil.
WalkReturn ==
    /\ pc = "walk"
    /\ pc' = "found"
    /\ UNCHANGED <<inputVars, walkVars, parseVars, printVars, exitCode, msg, keyVars>>

\* main, lines 61-69: what main does with findMarkdownFiles' result.
MainAfterFind ==
    /\ pc = "found"
    /\ IF walkErr # NilErr
       THEN Exit(1, "unable to find markdown files", walkErr)
       ELSE IF Len(files) = 0
       THEN Exit(1, "did not find any KEPs", NilErr)
       ELSE pc' = "parse" /\ UNCHANGED <<exitCode, msg>>
    /\ UNCHANGED <<inputVars, walkVars, parseVars, printVars, keyVars>>

\* parseFiles: one iteration of the loop.  A handle, once open, is closed by
\* a deferred call, which runs when parseFiles returns.
ParseFile ==
    /\ pc = "parse"
    /\ idx < Len(files)
    /\ LET filename == files[idx + 1] IN
       \E openOK \in BOOLEAN :
         IF ~openOK
         THEN \* return nil, fmt.Errorf("could not open file: %v\n", err)
              /\ parseErr' = [kind |-> "could not open file", file |-> filename,
                              cause |-> "open failed"]
              /\ proposals' = <<>>
              /\ handles' = {}
              /\ pc' = "parsed"
              /\ UNCHANGED <<idx, opened, parsed, parserFault>>
         ELSE \E kep \in ParseResults :
              /\ opened' = Append(opened, filename)
              /\ parsed' = Append(parsed, [file |-> filename, kep |-> kep])
              /\ parserFault' = IF kep.Error # "" /\ parserFault = NoFault
                                THEN [at |-> idx + 1, cause |-> kep.Error]
                                ELSE parserFault
              /\ IF KepHasError(kep)
                 THEN \* return nil, fmt.Errorf("%v has an error: %q\n", ...)
                      /\ parseErr' = [kind |-> "has an error", file |-> filename,
                                      cause |-> kep.Error]
                      /\ proposals' = <<>>
                      /\ handles' = {}
                      /\ pc' = "parsed"
                      /\ UNCHANGED idx
                 ELSE /\ proposals' = AddProposal(proposals, kep)
                      /\ handles' = handles \cup {filename.id}
                      /\ idx' = idx + 1
                      /\ UNCHANGED <<parseErr, pc>>
    /\ UNCHANGED <<inputVars, walkVars, printVars, exitCode, msg, keyVars>>

\* parseFiles: the loop is over; return proposals, nil.  The deferred
\* closes run.
ParseFilesReturn ==
    /\ pc = "parse"
    /\ idx = Len(files)
    /\ handles' = {}
    /\ pc' = "parsed"
    /\ UNCHANGED <<idx, opened, parsed, parserFault, proposals, parseErr>>
    /\ UNCHANGED <<inputVars, walkVars, printVars, exitCode, msg, keyVars>>

\* main, lines 72-76: what main does with parseFiles' result.
MainAfterParse ==
    /\ pc = "parsed"
    /\ IF parseErr # NilErr
       THEN Exit(1, "error parsing files", parseErr)
       ELSE pc' = "create" /\ UNCHANGED <<exitCode, msg>>
    /\ UNCHANGED <<inputVars, walkVars, parseVars, printVars, keyVars>>

\* -------------------------------------------------------- printJSONOutput
\* printJSONOutput, lines 128-133: os.Create; its error is returned.
PrintCreate ==
    /\ pc = "create"
    /\ printCalled' = TRUE
    /\ \E ok \in BOOLEAN :
         IF ok
         THEN /\ outCreated' = TRUE
              /\ outOpen' = TRUE
              /\ pc' = "open"
              /\ UNCHANGED <<createFailed, printErr>>
         ELSE /\ createFailed' = TRUE
              /\ printErr' = [kind |-> "create", file |-> NoFile, cause |-> "create failed"]
              /\ pc' = "printed"
              /\ UNCHANGED <<outCreated, outOpen>>
    /\ UNCHANGED <<out, writeFailed, i>>
    /\ UNCHANGED <<inputVars, walkVars, parseVars, exitCode, msg, keyVars>>

\* printJSONOutput, lines 135-138: Fprintln(file, "{").  What Fprintln
\* returns is dropped.
PrintOpenBrace ==
    /\ pc = "open"
    /\ \E ok \in BOOLEAN :
         /\ out' = Append(out, OpenLine)
         /\ writeFailed' = (writeFailed \/ ~ok)
    /\ i' = 0
    /\ pc' = "members"
    /\ UNCHANGED <<printCalled, createFailed, outCreated, outOpen, printErr>>
    /\ UNCHANGED <<inputVars, walkVars, parseVars, exitCode, msg, keyVars>>

\* printJSONOutput, lines 139-160: one iteration of the loop.  What the
\* Fprintf calls return is dropped.
PrintMember ==
    /\ pc = "members"
    /\ i < Len(proposals)
    /\ \E ok \in BOOLEAN :
         /\ out' = out \o MemberLines(i, RangeAt(proposals, i), Len(proposals))
         /\ writeFailed' = (writeFailed \/ ~ok)
    /\ i' = i + 1
    /\ UNCHANGED <<pc, printCalled, createFailed, outCreated, outOpen, printErr>>
    /\ UNCHANGED <<inputVars, walkVars, parseVars, exitCode, msg, keyVars>>

\* printJSONOutput, lines 161-162: Fprintln(file, "}"); return nil.  The
\* deferred file.Close() runs.
PrintCloseBrace ==
    /\ pc = "members"
    /\ i = Len(proposals)
    /\ \E ok \in BOOLEAN :
         /\ out' = Append(out, CloseLine)
         /\ writeFailed' = (writeFailed \/ ~ok)
    /\ outOpen' = FALSE
    /\ printErr' = NilErr
    /\ pc' = "printed"
    /\ UNCHANGED <<printCalled, createFailed, outCreated, i>>
    /\ UNCHANGED <<inputVars, walkVars, parseVars, exitCode, msg, keyVars>>

\* main, lines 79-84: what main does with printJSONOutput's result.
MainAfterPrint ==
    /\ pc = "printed"
    /\ IF printErr # NilErr
       THEN Exit(1, "could not open file", printErr)
       ELSE Exit(0, "", NilErr)
    /\ UNCHANGED <<inputVars, walkVars, parseVars, printVars, keyVars>>

Next ==
    \/ CheckArgs
    \/ WalkVisit
    \/ WalkReturn
    \/ MainAfterFind
    \/ ParseFile
    \/ ParseFilesReturn
    \/ MainAfterParse
    \/ PrintCreate
    \/ PrintOpenBrace
    \/ PrintMember
    \/ PrintCloseBrace
    \/ MainAfterPrint

\* One run of the program.
Spec == Init /\ [][Next]_vars

\* ------------------------------------- printJSONOutput on any collection
\* printJSONOutput is called with a collection of 0..MaxEntries proposals.
InitPrint ==
    /\ pc = "create"
    /\ dirPath = <<"k">> /\ dirExists = TRUE /\ filePath = <<"o">>
    /\ nVisited = 0 /\ nExcluded = 0 /\ files = <<>> /\ walkErr = NilErr
    /\ idx = 0 /\ handles = {} /\ opened = <<>> /\ parsed = <<>>
    /\ parserFault = NoFault /\ parseErr = NilErr
    /\ proposals \in UNION {[1..n -> ParsedKeps] : n \in 0..MaxEntries}
    /\ printCalled = FALSE /\ createFailed = FALSE /\ outCreated = FALSE
    /\ outOpen = FALSE /\ out = <<>> /\ writeFailed = FALSE /\ i = 0
    /\ printErr = NilErr /\ exitCode = 0 /\ msg = NoMsg
    /\ recs = <<>> /\ hashed = <<>>

NextPrint ==
    \/ PrintCreate
    \/ PrintOpenBrace
    \/ PrintMember
    \/ PrintCloseBrace

SpecPrint == InitPrint /\ [][NextPrint]_vars

\* ------------------------------------------------- the identifier of a kep
KeyAlphabet == {"a", COLON}

\* Proposals that differ in owning-sig, title and body only.
KeyKeps ==
    { Proposal(t, s, NilSlice, c, "") :
        t \in TextsUpTo(KeyAlphabet, MaxStrLen) \ {<<>>},
        s \in TextsUpTo(KeyAlphabet, MaxStrLen) \ {<<>>},
        c \in {<<>>, <<"a">>} }

\* Two proposals are about to be printed.
InitKey ==
    /\ pc = "off"
    /\ dirPath = <<"k">> /\ dirExists = TRUE /\ filePath = <<"o">>
    /\ Idle
    /\ recs \in [1..2 -> KeyKeps]
    /\ hashed = <<>>

\* Line 140: the key of the next proposal.
HashKey ==
    /\ Len(hashed) < Len(recs)
    /\ LET kep == recs[Len(hashed) + 1] IN
       hashed' = Append(hashed, [input |-> HashInput(kep), key |-> MemberKey(kep)])
    /\ UNCHANGED <<pc, inputVars, walkVars, parseVars, printVars, exitCode, msg, recs>>

NextKey == HashKey

SpecKey == InitKey /\ [][NextKey]_vars

\* =================================================================== claims
\* --------------------------------------------------- reading what was printed
LinesPerMember == Len(FieldNames) + 2

\* The lines of the k-th member printed.
MemberAt(k) == SubSeq(out, 2 + (k - 1) * LinesPerMember, 1 + k * LinesPerMember)

LinesOf(fmt) == LET Is(l) == l.fmt = fmt IN SelectSeq(out, Is)

\* The member the line at position p belongs to: the key lines up to p.
MemberIndexAt(p) == LET IsKey(l) == l.fmt = "key" IN Len(SelectSeq(SubSeq(out, 1, p), IsKey))

\* Reading a JSON string literal: the text it denotes, or not ok when the
\* text is no JSON string (a raw quote or control character, a bad escape,
\* no closing quote, or anything after it).
BadJSON == [ok |-> FALSE, text |-> <<>>]

RECURSIVE DecodeFrom(_, _, _)
DecodeFrom(t, p, acc) ==
    IF p > Len(t) THEN BadJSON
    ELSE IF t[p] = DQ THEN (IF p = Len(t) THEN [ok |-> TRUE, text |-> acc] ELSE BadJSON)
    ELSE IF t[p] = LF THEN BadJSON
    ELSE IF t[p] = BS THEN
        IF p + 1 > Len(t) THEN BadJSON
        ELSE IF t[p + 1] \in {DQ, BS} THEN DecodeFrom(t, p + 2, Append(acc, t[p + 1]))
        ELSE IF t[p + 1] = "n" THEN DecodeFrom(t, p + 2, Append(acc, LF))
        ELSE IF t[p + 1] = "u" /\ p + 5 <= Len(t)
                /\ SubSeq(t, p + 2, p + 5) = <<"0", "0", "3", "c">>
        THEN DecodeFrom(t, p + 6, Append(acc, LT))
        ELSE BadJSON
    ELSE DecodeFrom(t, p + 1, Append(acc, t[p]))

JSONDecodeString(t) == IF Len(t) < 2 \/ t[1] # DQ THEN BadJSON ELSE DecodeFrom(t, 2, <<>>)

HasColon(s) == \E p \in 1..Len(s) : s[p] = COLON

\* The run got past the flag checks and the walk returned no error.
WalkSucceeded ==
    /\ Len(dirPath) > 0 /\ dirExists /\ Len(filePath) > 0
    /\ pc \notin {"args", "walk"}
    /\ walkErr = NilErr

\* C1: once the parser has returned a record with an error for the file at
\* position k, parseFiles has returned an error naming that file and that
\* cause, the files opened and parsed are exactly the first k, no proposal is
\* returned, printJSONOutput is never called, the output file is not created
\* or written, and the run exits with a non-zero status reporting that error.
C1_FailFastOnParseError ==
    parserFault.at # 0 =>
        /\ pc \in {"parsed", "exit"}
        /\ parseErr.kind = "has an error"
        /\ parseErr.file = files[parserFault.at]
        /\ parseErr.cause = parserFault.cause
        /\ opened = SubSeq(files, 1, parserFault.at)
        /\ Len(parsed) = parserFault.at
        /\ proposals = <<>>
        /\ ~printCalled /\ ~outCreated /\ out = <<>>
        /\ pc = "exit" => (exitCode # 0 /\ msg.err = parseErr)

\* C1 witness: the first of two files failed to parse and the run has exited.
C1_Witness ==
    /\ pc = "exit"
    /\ parserFault.at = 1
    /\ Len(files) = 2
    /\ exitCode = 1

\* C2: on a run that exits with status 0 over n discovered files, n members
\* were printed, and the k-th is keyed by the identifier of the k-th file's
\* parsed document and carries that document's fields in the fixed order;
\* documents that share an identifier are each printed.
C2_OrderAndMultiplicity ==
    (pc = "exit" /\ exitCode = 0) =>
        LET n == Len(files) IN
        /\ Len(parsed) = n
        /\ Len(LinesOf("key")) = n
        /\ Len(out) = n * LinesPerMember + 2
        /\ \A k \in 1..n :
             LET kep == parsed[k].kep
                 m == MemberAt(k) IN
             /\ parsed[k].file = files[k]
             /\ m[1].fmt = "key"
             /\ m[1].value = hash(kep.OwningSIG \o <<COLON>> \o kep.Title)
             /\ \A j \in 1..Len(FieldNames) :
                  /\ m[j + 1].fmt = "field"
                  /\ m[j + 1].name = FieldNames[j]
                  /\ m[j + 1].value = FieldValue(kep, FieldNames[j])
             /\ m[LinesPerMember].fmt = "end"

\* C2 witness: a successful run over two documents that share owning-sig and
\* title, hence the key, and differ in the body: both members are printed.
C2_Witness ==
    /\ pc = "exit" /\ exitCode = 0
    /\ Len(parsed) = 2
    /\ parsed[1].kep.Contents # parsed[2].kep.Contents
    /\ Len(LinesOf("key")) = 2
    /\ LinesOf("key")[1] = LinesOf("key")[2]

\* C3: when printJSONOutput returns nil, for a collection of any length, it
\* has printed one opening brace, first, and one closing brace, last; one
\* member end per proposal, each with a comma except the last; and every
\* member but the first follows an end with a comma.
C3_MemberSeparators ==
    (pc = "printed" /\ printErr = NilErr) =>
        LET ends == LinesOf("end") IN
        /\ Len(LinesOf("open")) = 1 /\ out[1] = OpenLine
        /\ Len(LinesOf("close")) = 1 /\ out[Len(out)] = CloseLine
        /\ Len(ends) = Len(proposals)
        /\ Len(LinesOf("key")) = Len(proposals)
        /\ \A k \in 1..Len(ends) : ends[k].comma = (k < Len(ends))
        /\ \A p \in 2..Len(out) :
             /\ out[p].fmt = "key" => (out[p - 1] = OpenLine \/ out[p - 1] = EndLine(TRUE))
             /\ out[p].fmt = "close" => (out[p - 1] = OpenLine \/ out[p - 1] = EndLine(FALSE))

\* C3 witness: printJSONOutput has returned after printing two or more members.
C3_Witness ==
    /\ pc = "printed" /\ printErr = NilErr
    /\ Len(proposals) >= 2
    /\ Len(LinesOf("end")) = Len(proposals)

\* C4 (as claimed): every scalar field printed is a JSON string that decodes
\* to the field of the proposal it was printed for.
C4_ScalarsEscaped ==
    \A p \in 1..Len(out) :
        (out[p].fmt = "field" /\ out[p].name \in ScalarFields) =>
            JSONDecodeString(out[p].value)
                = [ok |-> TRUE, text |-> FieldOf(proposals[MemberIndexAt(p)], out[p].name)]

\* The body, which goes through json.Marshal, does decode to the field.
MarkdownDecodes ==
    \A p \in 1..Len(out) :
        (out[p].fmt = "field" /\ out[p].name = "markdown") =>
            JSONDecodeString(out[p].value)
                = [ok |-> TRUE, text |-> proposals[MemberIndexAt(p)].Contents]

\* C5 (as claimed): every sequence field without items, nil or empty, is
\* printed as [].
C5_EmptySequencesAsArrays ==
    \A p \in 1..Len(out) :
        (/\ out[p].fmt = "field"
         /\ out[p].name \in SliceFields
         /\ FieldOf(proposals[MemberIndexAt(p)], out[p].name).items = <<>>)
            => out[p].value = <<"[", "]">>

\* C6: two proposals that agree on owning-sig and title get the same key,
\* whatever their other fields; two that differ in exactly one of owning-sig
\* and title give different strings to the checksum.
C6_IdentifierStability ==
    Len(hashed) = 2 =>
        LET a == recs[1]
            b == recs[2] IN
        /\ (a.OwningSIG = b.OwningSIG /\ a.Title = b.Title) => hashed[1].key = hashed[2].key
        /\ ((a.OwningSIG = b.OwningSIG) # (a.Title = b.Title)) => hashed[1].input # hashed[2].input

\* C6 witness: both keys are computed for two proposals that agree on
\* owning-sig and title and differ in the body.
C6_Witness ==
    /\ Len(hashed) = 2
    /\ recs[1].OwningSIG = recs[2].OwningSIG
    /\ recs[1].Title = recs[2].Title
    /\ recs[1].Contents # recs[2].Contents
    /\ hashed[1].key = hashed[2].key

\* C7 (as claimed): a failed create, or a failed write, makes printJSONOutput
\* return an error and the run exit with a non-zero status.
C7_OutputErrorsSurfaced ==
    /\ (createFailed \/ writeFailed) =>
          /\ pc = "printed" => printErr # NilErr
          /\ pc = "exit" => (exitCode # 0 /\ msg.err = printErr /\ printErr # NilErr)
    /\ (pc = "exit" /\ exitCode = 0) => (~createFailed /\ ~writeFailed)

\* C8: every file handed to the parser is not a directory, has a base name
\* ending in the markdown suffix and is not on the ignore-list; and when the
\* walk returns no error and no file, the run reports that it found no KEPs
\* and exits non-zero, with no file opened or parsed and no output created.
C8_EmptyCollectionAborts ==
    /\ \A k \in 1..Len(parsed) :
          LET f == parsed[k].file IN
          /\ ~f.isDir
          /\ HasSuffix(f.name, MarkdownSuffix)
          /\ f.name \notin IgnoredNames
    /\ \A k \in 1..Len(opened) : opened[k] \in {files[j] : j \in 1..Len(files)}
    /\ (WalkSucceeded /\ Len(files) = 0 /\ pc # "found") =>
          /\ pc = "exit"
          /\ exitCode # 0
          /\ msg.text = "did not find any KEPs"
          /\ opened = <<>> /\ parsed = <<>>
          /\ ~printCalled /\ ~outCreated

\* C8 witness: every file the walk met was excluded by ignore, and the run
\* has exited reporting no KEPs.
C8_Witness ==
    /\ pc = "exit"
    /\ WalkSucceeded
    /\ nExcluded >= 2
    /\ files = <<>>
    /\ msg.text = "did not find any KEPs"

\* C9 (as claimed): at most one input handle is open at any time, and none
\* once parseFiles has returned.
C9_ScopedInputHandles ==
    /\ Cardinality(handles) <= 1
    /\ pc \in {"parsed", "create", "open", "members", "printed", "exit"} => handles = {}

\* C10 (as claimed): two proposals whose (owning-sig, title) pairs differ
\* give different strings to the checksum.
C10_HashInputInjective ==
    Len(hashed) = 2 =>
        (<<recs[1].OwningSIG, recs[1].Title>> # <<recs[2].OwningSIG, recs[2].Title>>
            => hashed[1].input # hashed[2].input)

\* C10 (amended): two proposals whose (owning-sig, title) pairs differ, and
\* whose owning-sigs contain no colon, give different strings to the checksum.
C10_HashInputInjectiveNoColonSig ==
    Len(hashed) = 2 =>
        ((/\ <<recs[1].OwningSIG, recs[1].Title>> # <<recs[2].OwningSIG, recs[2].Title>>
          /\ ~HasColon(recs[1].OwningSIG)
          /\ ~HasColon(recs[2].OwningSIG))
            => hashed[1].input # hashed[2].input)

\* C10 witness: both inputs are computed for two proposals that differ in
\* both fields, with colon-free owning-sigs and a colon in a title.
C10_Witness ==
    /\ Len(hashed) = 2
    /\ recs[1].OwningSIG # recs[2].OwningSIG
    /\ recs[1].Title # recs[2].Title
    /\ ~HasColon(recs[1].OwningSIG) /\ ~HasColon(recs[2].OwningSIG)
    /\ HasColon(recs[1].Title)
    /\ hashed[1].input # hashed[2].input

====
